---- MODULE Spec2Model ----
(***************************************************************************)
(* A model of routify.js: the location matcher (locationMatch), the        *)
(* per-group registry (elements), the activation engine                    *)
(* (maybeActivateElement, activateCurrentPath, toggleElementActive) and    *)
(* the navigation interceptor (installRouter).                             *)
(*                                                                         *)
(* JavaScript strings are modelled as sequences of one-character strings.  *)
(* An async function is a task: a step of the model runs one task from     *)
(* the point where it was suspended (an `await`) to its next `await` or    *)
(* to its end, which is what the single-threaded event loop does.          *)
(***************************************************************************)
EXTENDS Integers, Sequences, FiniteSets, TLC

\* ------------------------------------------------------------------ bounds
MaxTasks == 2    \* async invocations (passes, single evaluations) in flight
MaxOps == 3      \* calls and events from outside (registrations, navigation)
MaxSegs == 2     \* path segments of the templates and locations matched
MaxAlts == 2     \* alternatives of a template given as a list

\* ------------------------------------------------------------- strings
None == "null"

Last(s) == s[Len(s)]

IndexOf(s, c) ==
  IF \E i \in 1..Len(s) : s[i] = c
  THEN CHOOSE i \in 1..Len(s) : s[i] = c /\ \A j \in 1..(i - 1) : s[j] # c
  ELSE 0

RECURSIVE Split(_, _)
\* String.prototype.split(c): "" gives <<"">>, "/a" gives <<"", "a">>
Split(s, c) ==
  LET i == IndexOf(s, c)
  IN IF i = 0 THEN <<s>>
     ELSE <<SubSeq(s, 1, i - 1)>> \o Split(SubSeq(s, i + 1, Len(s)), c)

\* the part of s before its first c, all of s when it has none
Before(s, c) ==
  IF IndexOf(s, c) = 0 THEN s ELSE SubSeq(s, 1, IndexOf(s, c) - 1)

\* the part of s from its first c on, empty when it has none
From(s, c) ==
  IF IndexOf(s, c) = 0 THEN <<>> ELSE SubSeq(s, IndexOf(s, c), Len(s))

RECURSIVE Unslashed(_)
\* s without its leading slashes
Unslashed(s) ==
  IF s # <<>> /\ s[1] = "/" THEN Unslashed(SubSeq(s, 2, Len(s))) ELSE s

\* new URL(templateUrl, 'http://localhost/'), for a template with no query,
\* backslash, dot segment or escaped character: a reference that starts with
\* two slashes or more is scheme-relative, what follows the slashes up to the
\* next one is its host and the rest is its path
SchemeRelative(templateUrl) ==
  Len(templateUrl) >= 2 /\ templateUrl[1] = "/" /\ templateUrl[2] = "/"

UrlHost(templateUrl) == Before(Unslashed(Before(templateUrl, "#")), "/")

\* new URL throws a TypeError: the host is missing
UrlFails(templateUrl) ==
  /\ SchemeRelative(templateUrl)
  /\ (UrlHost(templateUrl) = <<>> \/ UrlHost(templateUrl)[1] = ":")

\* new URL(templateUrl, 'http://localhost/').pathname
UrlPath(p) ==
  IF SchemeRelative(p)
  THEN IF From(Unslashed(p), "/") = <<>> THEN <<"/">>
       ELSE From(Unslashed(p), "/")
  ELSE IF p = <<>> THEN <<"/">> ELSE p

UrlPathname(templateUrl) == UrlPath(Before(templateUrl, "#"))

\* new URL(...).hash: "" when there is no fragment or an empty one,
\* otherwise "#" followed by the fragment
UrlHash(templateUrl) ==
  LET i == IndexOf(templateUrl, "#")
  IN IF i = 0 \/ i = Len(templateUrl) THEN <<>>
     ELSE SubSeq(templateUrl, i, Len(templateUrl))

\* (h || '#').substr(1)
HashBody(h) == IF h = <<>> THEN <<>> ELSE SubSeq(h, 2, Len(h))

\* ------------------------------------------------------------- matcher
\* The outcome of a match: ok with the parameters, or not ok (false or
\* undefined), or an exception (threw); calls lists what the validator was
\* called with.
NoMatch == [ok |-> FALSE, params |-> {}, threw |-> FALSE, calls |-> <<>>]
Threw == [ok |-> FALSE, params |-> {}, threw |-> TRUE, calls |-> <<>>]

\* callbackParams[name] = value: a later binding of a name replaces the earlier
SetParam(params, name, value) ==
  {b \in params : b[1] # name} \cup {<<name, value>>}

RECURSIVE SegmentLoop(_, _, _, _)
\* the loop of locationMatchExecutor over the template's segments, from i
SegmentLoop(templatePath, browserPath, i, callbackParams) ==
  IF i > Len(templatePath)
  THEN [ok |-> TRUE, params |-> callbackParams, threw |-> FALSE,
        calls |-> <<>>]
  ELSE IF templatePath[i] # <<>> /\ templatePath[i][1] = ":"
    THEN SegmentLoop(templatePath, browserPath, i + 1,
           SetParam(callbackParams,
                    SubSeq(templatePath[i], 2, Len(templatePath[i])),
                    browserPath[i]))
  ELSE IF templatePath[i] = <<"*">> /\ browserPath[i] # <<>>
    THEN SegmentLoop(templatePath, browserPath, i + 1, callbackParams)
  ELSE IF templatePath[i] # browserPath[i] THEN NoMatch
  ELSE SegmentLoop(templatePath, browserPath, i + 1, callbackParams)

\* locationMatchExecutor, lines 422-432
HashMatching(templateUrl, browserHash) ==
  LET templateHash == HashBody(UrlHash(templateUrl))
      templateHashEmpty == templateUrl # <<>> /\ Last(templateUrl) = "#"
  IN IF templateHash # <<>> \/ templateHashEmpty
     THEN IF templateHashEmpty /\ browserHash # <<>> THEN FALSE
          ELSE IF templateHash = <<"*">> /\ browserHash # <<>> THEN TRUE
          ELSE templateHash = browserHash
     ELSE TRUE

\* a validator is named; "null" is no validator
CheckerAccepts(checker, params) ==
  CASE checker = "acceptAll" -> TRUE
    [] checker = "rejectAll" -> FALSE
    [] checker = "nonEmpty" -> \A b \in params : b[2] # <<>>
    [] OTHER -> TRUE

\* locationMatchExecutor, lines 447-452: the validator has the last word on
\* what the segments gave
Validated(checker, r) ==
  IF ~r.ok THEN NoMatch
  ELSE IF checker = None THEN r
  ELSE IF CheckerAccepts(checker, r.params)
  THEN [r EXCEPT !.calls = <<r.params>>]
  ELSE [NoMatch EXCEPT !.calls = <<r.params>>]

\* locationMatchExecutor, lines 420-452, once both paths are split
MatchPaths(templateUrl, checker, templatePath, browserPath, browserHash) ==
  IF Len(templatePath) # Len(browserPath) THEN NoMatch
  ELSE IF ~HashMatching(templateUrl, browserHash) THEN NoMatch
  ELSE Validated(checker, SegmentLoop(templatePath, browserPath, 1, {}))

locationMatchExecutor(templateUrl, checker, loc) ==
  IF UrlFails(templateUrl) THEN Threw
  ELSE MatchPaths(templateUrl, checker,
                  Split(UrlPathname(templateUrl), "/"),
                  Split(loc.pathname, "/"),
                  HashBody(loc.hash))

FirstAlternativeOnly(urls, i, checker, loc) ==
  IF i > Len(urls) THEN NoMatch
  ELSE locationMatchExecutor(urls[i], checker, loc)

RECURSIVE FirstAlternative(_, _, _, _)
FirstAlternative(urls, i, checker, loc) ==
  IF i > Len(urls) THEN NoMatch
  ELSE LET r == locationMatchExecutor(urls[i], checker, loc)
       IN IF r.ok \/ r.threw THEN r
          ELSE [FirstAlternative(urls, i + 1, checker, loc) EXCEPT
                  !.calls = r.calls \o @]

\* A template value is [isArray, urls]: a string is one url with isArray
\* FALSE, a missing template (false, "") has no url.
NoPath == [isArray |-> FALSE, urls |-> <<>>]
Single(url) == [isArray |-> FALSE, urls |-> <<url>>]
List(urls) == [isArray |-> TRUE, urls |-> urls]

locationMatch(templateUrl, checker, loc) ==
  IF ~templateUrl.isArray /\ (templateUrl.urls = <<>> \/ templateUrl.urls[1] = <<>>)
  THEN NoMatch
  ELSE IF ~templateUrl.isArray
  THEN locationMatchExecutor(templateUrl.urls[1], checker, loc)
  ELSE FirstAlternative(templateUrl.urls, 1, checker, loc)

\* ------------------------------------------------------------ components
\* The routable elements of the page and their resolved configuration
\* (getPagePathFromEl, getRoutingGroupFromEl, getFallbackFromEl,
\* getDisableActivationFromEl, and the two callback properties).
Str(c1, c2) == <<c1, c2>>

Els == {"A", "F", "D", "G", "B"}

pagePath ==
  [el \in Els |->
     CASE el = "A" -> Single(Str("/", "a"))
       [] el = "F" -> NoPath
       [] el = "D" -> Single(Str("/", "a"))
       [] el = "G" -> Single(Str("/", "b"))
       [] el = "B" -> Single(Str("/", "a"))]

routingGroup == [el \in Els |-> IF el \in {"G", "B"} THEN "g2" ELSE "default"]

fallbackOf == [el \in Els |-> el \in {"F", "D"}]

disableActivation == [el \in Els |-> el = "D"]

preRouterCallback == [el \in Els |-> el \in {"A", "D"}]

routerCallback == [el \in Els |-> el \in {"A", "F"}]

getPagePathFromEl(el) == pagePath[el]
getRoutingGroupFromEl(el) == routingGroup[el]
getFallbackFromEl(el) == fallbackOf[el]
getDisableActivationFromEl(el) == disableActivation[el]

\* window.location values the page visits
Loc(pathname) == [pathname |-> pathname, hash |-> <<>>]
Locs == {Loc(Str("/", "a")), Loc(Str("/", "b"))}

\* ------------------------------------------------------------------ state
VARIABLES
  elements,          \* the registry: groups in creation order
  routerInstalled,   \* installRouter was called
  routingRegistered, \* el.__routingRegistered
  active,            \* each element's active attribute/property
  location,          \* window.location
  tasks,             \* in-flight async invocations
  ev,                \* what the last step made observable, in order
  snap,              \* flags and records left by the last undisturbed pass
  ops                \* calls and events from outside so far

vars == <<elements, routerInstalled, routingRegistered, active, location,
          tasks, ev, snap, ops>>

NewGroup(name) ==
  [name |-> name, list |-> <<>>, fallback |-> None, activeElement |-> None]

HasGroup(els, g) == \E i \in 1..Len(els) : els[i].name = g
GroupIndex(els, g) == CHOOSE i \in 1..Len(els) : els[i].name = g
ObjectKeys(els) == [i \in 1..Len(els) |-> els[i].name]
ActiveElements(els) == [i \in 1..Len(els) |-> els[i].activeElement]

IdleTask ==
  [kind |-> "none", pc |-> "idle", keys |-> <<>>, gi |-> 0, arr |-> <<>>,
   live |-> FALSE, idx |-> 0, oneActive |-> FALSE, el |-> None,
   m |-> NoMatch, ret |-> FALSE, solo |-> FALSE, calm |-> FALSE,
   loc0 |-> None, fix |-> FALSE, visited |-> {},
   seen |-> <<>>, steady |-> FALSE, fresh |-> FALSE]

NoSnap ==
  [valid |-> FALSE, again |-> FALSE, active |-> [el \in Els |-> FALSE],
   ae |-> <<>>]

HookPcs == {"evalPre", "evalMain", "fbPre", "fbMain"}
AwaitPcs == HookPcs \cup {"evalRet"}

\* ----------------------------------------------------------------- engine
\* The operators below thread a record st = [elements, active, loc, tk, ev]
\* through the synchronous code of one task tk, up to its next await.

getActiveFromEl(st, el) == st.active[el]

toggleElementActiveFlip(st, el, act) ==
  [st EXCEPT !.active[el] = ~st.active[el],
             !.ev = IF ~st.active[el]
                    THEN Append(@, [type |-> "route-activated", el |-> el,
                                    was |-> st.active[el]])
                    ELSE @]

\* lines 209-213
toggleElementActive(st, el, act) ==
  [st EXCEPT !.active[el] = act,
             !.ev = IF act
                    THEN Append(@, [type |-> "route-activated", el |-> el,
                                    was |-> st.active[el]])
                    ELSE @]

\* el[callback](params, e) is called and awaited: the task is suspended at pc
CallHook(st, hook, el, params, role, pc) ==
  [st EXCEPT !.ev = Append(@, [type |-> hook, el |-> el, params |-> params,
                               role |-> role, kind |-> st.tk.kind,
                               solo |-> st.tk.solo, from |-> st.tk.pc]),
             !.tk.pc = pc]

\* maybeActivateElement, lines 166-172: record the active element, return
MaybeFinish(st) ==
  LET el == st.tk.el
      gi == GroupIndex(st.elements, getRoutingGroupFromEl(el))
      activationDisabled == getDisableActivationFromEl(el)
  IN IF activationDisabled
     THEN [st EXCEPT !.tk.ret = FALSE, !.tk.pc = "evalRet", !.tk.m = NoMatch, !.tk.el = None]
     ELSE [st EXCEPT !.elements[gi].activeElement =
                        IF st.tk.m.ok THEN el ELSE @,
                     !.tk.ret = st.tk.m.ok, !.tk.m = NoMatch, !.tk.el = None,
                     !.tk.pc = "evalRet"]

\* the two awaited callbacks of maybeActivateElement (lines 150-151 and
\* 162-163), entered at the first ("start") or after the first ("pre")
MaybeHooks(st, from) ==
  LET el == st.tk.el
  IN IF from = "start" /\ preRouterCallback[el]
     THEN CallHook(st, "preRouterCallback", el, st.tk.m.params, "member", "evalPre")
     ELSE IF routerCallback[el]
     THEN CallHook(st, "routerCallback", el, st.tk.m.params, "member", "evalMain")
     ELSE MaybeFinish(st)

\* maybeActivateElement, lines 160-172: the callbacks of a member that is
\* matched and is not the group's recorded active element
MaybeCallbacks(st) ==
  IF st.tk.m.ok
     /\ st.tk.el # st.elements[GroupIndex(st.elements,
                       getRoutingGroupFromEl(st.tk.el))].activeElement
  THEN MaybeHooks(st, "start")
  ELSE MaybeFinish(st)

\* maybeActivateElement, lines 147-172, with isActiveWithParams in st.tk.m
MaybeMatched(st) ==
  IF getDisableActivationFromEl(st.tk.el) /\ st.tk.m.ok
  THEN MaybeHooks(st, "start")
  ELSE MaybeCallbacks(IF st.tk.m.ok # getActiveFromEl(st, st.tk.el)
                      THEN toggleElementActive(st, st.tk.el, st.tk.m.ok)
                      ELSE st)

\* the async function returns (or throws): its task is over
TaskEnd(st, failed) ==
  [st EXCEPT !.ev = Append(@, [type |-> "end", kind |-> st.tk.kind,
                               failed |-> failed, solo |-> st.tk.solo,
                               calm |-> st.tk.calm, fix |-> st.tk.fix,
                               steady |-> st.tk.steady,
                               fresh |-> st.tk.fresh,
                               of |-> st.tk.seen,
                               visited |-> st.tk.visited,
                               nonEmpty |-> {st.tk.keys[i] : i \in
                                 {j \in 1..Len(st.tk.keys) :
                                    st.elements[GroupIndex(st.elements,
                                       st.tk.keys[j])].list # <<>>}}]),
             !.tk = IdleTask]

\* maybeActivateElement is called
Evaluated(st, el) ==
  [st EXCEPT !.ev = Append(@, [type |-> "evaluate", el |-> el,
                               from |-> st.tk.pc, kind |-> st.tk.kind,
                               loc |-> st.loc, loc0 |-> st.tk.loc0,
                               was |-> st.active[el],
                               ae |-> st.elements[GroupIndex(st.elements,
                                        getRoutingGroupFromEl(el))].activeElement]),
             !.tk.seen = Append(@, el)]

NoPathThrows(st, el) ==
  TaskEnd([st EXCEPT !.ev = Append(@, [type |-> "error", el |-> el])], TRUE)

\* maybeActivateElement, lines 141-144: console.error, return false
NoPathReturn(st, el) ==
  [st EXCEPT !.ev = Append(@, [type |-> "error", el |-> el]),
             !.tk.el = None, !.tk.m = NoMatch,
             !.tk.ret = FALSE, !.tk.pc = "evalRet"]

\* maybeActivateElement from its first line to its first await or its return
MaybeEnter(st, el) ==
  IF /\ getPagePathFromEl(el) = NoPath
     /\ el # st.elements[GroupIndex(st.elements,
                                    getRoutingGroupFromEl(el))].fallback
     /\ ~getDisableActivationFromEl(el)
  THEN NoPathReturn(Evaluated(st, el), el)
  ELSE MaybeMatched([Evaluated(st, el) EXCEPT
                       !.tk.el = el,
                       !.tk.m = locationMatch(getPagePathFromEl(el), None,
                                              st.loc)])

\* activateCurrentPath, lines 183-188, for the group at index k of elements
GroupBody(st, gi, k) ==
  IF st.elements[k].list = <<>> THEN TaskEnd(st, FALSE)
  ELSE MaybeEnter([st EXCEPT !.elements[k].activeElement = None,
                             !.tk.gi = gi,
                             !.tk.oneActive = FALSE,
                             !.tk.arr = st.elements[k].list,
                             !.tk.live = TRUE,
                             !.tk.idx = 1,
                             !.tk.seen = <<>>],
                  st.elements[k].list[1])

\* activateCurrentPath, lines 182-188: the head of the loop over the groups
GroupEnter(st, gi) ==
  IF gi > Len(st.tk.keys) THEN TaskEnd(st, FALSE)
  ELSE GroupBody(st, gi, GroupIndex(st.elements, st.tk.keys[gi]))

\* the end of the loop body for the current group, then the next group
AfterGroup(st) ==
  LET g == st.tk.keys[st.tk.gi]
      st1 == [st EXCEPT !.ev = Append(@, [type |-> "groupDone", group |-> g,
                                          oneActive |-> st.tk.oneActive,
                                          arr |-> st.tk.arr,
                                          solo |-> st.tk.solo]),
                        !.tk.visited = @ \cup {g}]
  IN GroupEnter(st1, st.tk.gi + 1)

FallbackActiveSame(oneActive) == oneActive

\* line 193
FallbackActive(oneActive) == ~oneActive

\* activateCurrentPath, lines 196-197, entered like MaybeHooks
FallbackHooks(st, from) ==
  LET fallback == st.tk.el
  IN IF from = "start" /\ preRouterCallback[fallback]
     THEN CallHook(st, "preRouterCallback", fallback, {}, "fallback", "fbPre")
     ELSE IF routerCallback[fallback]
     THEN CallHook(st, "routerCallback", fallback, {}, "fallback", "fbMain")
     ELSE AfterGroup(st)

\* activateCurrentPath, lines 195-198
FallbackToggled(st, fallbackActive) ==
  IF fallbackActive THEN FallbackHooks(st, "start") ELSE AfterGroup(st)

\* activateCurrentPath, lines 193-198
FallbackFound(st, fallback, fallbackActive) ==
  FallbackToggled(
    toggleElementActive(
      [st EXCEPT !.ev = Append(@, [type |-> "fallback", el |-> fallback,
                                   from |-> st.tk.pc, seen |-> st.tk.seen,
                                   arr |-> st.tk.arr]),
                 !.tk.el = fallback, !.tk.ret = FALSE],
      fallback, fallbackActive),
    fallbackActive)

\* activateCurrentPath, lines 191-200
Fallback(st) ==
  LET fallback == st.elements[GroupIndex(st.elements,
                                         st.tk.keys[st.tk.gi])].fallback
  IN IF fallback = None THEN AfterGroup(st)
     ELSE FallbackFound(st, fallback, FallbackActive(st.tk.oneActive))

ListDoneEarly(idx, arr) == idx >= Len(arr)

\* line 187: the iterator of the for-of loop is exhausted
ListDone(idx, arr) == idx > Len(arr)

\* activateCurrentPath, lines 187-190, with oneActive and the iterator updated
MemberLoop(st) ==
  IF ListDone(st.tk.idx, st.tk.arr) THEN Fallback(st)
  ELSE MaybeEnter(st, st.tk.arr[st.tk.idx])

\* activateCurrentPath, lines 187-190: the await of line 188 resumes
MemberNext(st) ==
  MemberLoop([st EXCEPT !.tk.oneActive = @ \/ st.tk.ret, !.tk.idx = @ + 1])

\* a suspended task runs on from its await
Continue(st) ==
  CASE st.tk.pc = "evalPre" -> MaybeHooks(st, "pre")
    [] st.tk.pc = "evalMain" -> MaybeFinish(st)
    [] st.tk.pc = "evalRet" ->
         IF st.tk.kind = "pass" THEN MemberNext(st) ELSE TaskEnd(st, FALSE)
    [] st.tk.pc = "fbPre" -> FallbackHooks(st, "pre")
    [] st.tk.pc = "fbMain" -> AfterGroup(st)

\* ---------------------------------------------------------------- actions
\* tasks holds the suspended invocations, oldest first
RemoveAt(ts, i) == SubSeq(ts, 1, i - 1) \o SubSeq(ts, i + 1, Len(ts))

St(els, act, loc, tk) ==
  [elements |-> els, active |-> act, loc |-> loc, tk |-> tk, ev |-> <<>>]

\* a new invocation; it is alone (solo) when nothing else is in flight, and
\* undisturbed (calm) until anything else happens: another invocation, a new
\* location, a change of the registry; loc0 is window.location at the call.
\* The time during which some invocation is in flight is steady as long as
\* all of them are passes, the registry stays as it is and no hook fails,
\* and fresh when a pass was started in it after the location last changed.
NewTask(kind, els, ts, loc) ==
  [IdleTask EXCEPT !.kind = kind,
                   !.keys = IF kind = "pass" THEN ObjectKeys(els) ELSE <<>>,
                   !.solo = (ts = <<>>),
                   !.calm = (ts = <<>>),
                   !.loc0 = loc,
                   !.steady = (kind = "pass"
                               /\ \A t \in 1..Len(ts) : ts[t].steady),
                   !.fresh = (kind = "pass")]

StartedAlone(ts, st) == IF st.tk.pc = "idle" THEN <<>> ELSE <<st.tk>>

\* the invocation st.tk was started while ts were suspended: they are no
\* longer alone; it joins them unless it already ended
Started(ts, st) ==
  LET disturbed == [t \in 1..Len(ts) |->
                      [ts[t] EXCEPT !.solo = FALSE, !.calm = FALSE]]
  IN IF st.tk.pc = "idle" THEN disturbed ELSE Append(disturbed, st.tk)

\* activateCurrentPath(e) is called: it runs to its first await
StartPass(st, ts) ==
  GroupEnter([st EXCEPT !.tk = NewTask("pass", st.elements, ts, st.loc),
                        !.ev = Append(@, [type |-> "start", kind |-> "pass",
                                          others |-> Len(ts)])], 1)

\* elements[group].list.push(el): passes iterating that very array see it
Pushed(ts, g, el) ==
  [t \in 1..Len(ts) |->
     IF ts[t].kind = "pass" /\ ts[t].pc \in {"evalPre", "evalMain", "evalRet"}
        /\ ts[t].live /\ ts[t].keys[ts[t].gi] = g
     THEN [ts[t] EXCEPT !.arr = Append(@, el)]
     ELSE ts[t]]

\* elements[group].list = filter(...): passes keep iterating the old array
Detached(ts, g) ==
  [t \in 1..Len(ts) |->
     IF ts[t].kind = "pass" /\ ts[t].keys[ts[t].gi] = g
     THEN [ts[t] EXCEPT !.live = FALSE]
     ELSE ts[t]]

\* window.location or the registry changes under the suspended invocations
Changed(ts) == [t \in 1..Len(ts) |-> [ts[t] EXCEPT !.calm = FALSE]]

\* the registry changes, or a hook fails, while ts are in flight
Unsteady(ts) == [t \in 1..Len(ts) |-> [ts[t] EXCEPT !.steady = FALSE]]

\* a pass was started, or the location changed, while ts are in flight
Fresh(ts, fresh) == [t \in 1..Len(ts) |-> [ts[t] EXCEPT !.fresh = fresh]]

EndedSoloPass(events) ==
  \E i \in 1..Len(events) :
    /\ events[i].type = "end"
    /\ events[i].kind = "pass"
    /\ events[i].solo
    /\ events[i].calm
    /\ ~events[i].failed

Quiet(ts) == \A t \in 1..Len(ts) : ts[t].kind = "pass" /\ ts[t].solo

\* the flags and records an undisturbed, completed pass leaves behind
SnapAfter(st, ts, keep) ==
  IF EndedSoloPass(st.ev)
  THEN [valid |-> TRUE, again |-> (keep /\ snap.valid), active |-> st.active,
        ae |-> ActiveElements(st.elements)]
  ELSE IF keep /\ Quiet(ts) THEN snap
  ELSE NoSnap

Init ==
  /\ elements = <<NewGroup("default")>>
  /\ routerInstalled = FALSE
  /\ routingRegistered = [el \in Els |-> FALSE]
  /\ active = [el \in Els |-> FALSE]
  /\ location \in Locs
  /\ tasks = <<>>
  /\ ev = <<>>
  /\ snap = NoSnap
  /\ ops = 0

\* what maybeActivateElement(el) leaves in r = [active, ae, oneActive] when
\* its callbacks complete and nothing else runs meanwhile (lines 141-172)
AfterMember(r, el, fallback, loc) ==
  IF /\ getPagePathFromEl(el) = NoPath
     /\ el # fallback
     /\ ~getDisableActivationFromEl(el)
  THEN r
  ELSE IF getDisableActivationFromEl(el)
  THEN IF locationMatch(getPagePathFromEl(el), None, loc).ok THEN r
       ELSE [r EXCEPT !.active[el] = FALSE]
  ELSE IF locationMatch(getPagePathFromEl(el), None, loc).ok
  THEN [r EXCEPT !.active[el] = TRUE, !.ae = el, !.oneActive = TRUE]
  ELSE [r EXCEPT !.active[el] = FALSE]

RECURSIVE AfterMembers(_, _, _, _, _)
\* the loop of lines 187-190 from the i-th member on
AfterMembers(r, list, i, fallback, loc) ==
  IF i > Len(list) THEN r
  ELSE AfterMembers(AfterMember(r, list[i], fallback, loc), list, i + 1,
                    fallback, loc)

\* lines 191-200
AfterFallback(r, fallback) ==
  IF fallback = None THEN r
  ELSE [r EXCEPT !.active[fallback] = ~r.oneActive]

\* what the body of activateCurrentPath's loop leaves of the flags and of the
\* record of group g = elements[k] when it runs undisturbed (lines 183-200)
GroupOutcome(g, act, loc) ==
  IF g.list = <<>> THEN [active |-> act, ae |-> g.activeElement]
  ELSE [x \in {"active", "ae"} |->
          AfterFallback(AfterMembers([active |-> act, ae |-> None,
                                      oneActive |-> FALSE],
                                     g.list, 1, g.fallback, loc),
                        g.fallback)[x]]

\* a pass over group g at loc would change nothing
Reconciled(g, act, loc) ==
  GroupOutcome(g, act, loc) = [active |-> act, ae |-> g.activeElement]

\* registerRoute, line 265: the group is created when it is new
WithGroup(els, group) ==
  IF HasGroup(els, group) THEN els ELSE Append(els, NewGroup(group))

RegisteredOnce(els, gi, el) ==
  [els EXCEPT ![gi].list = IF \E i \in 1..Len(@) : @[i] = el
                           THEN @ ELSE Append(@, el),
              ![gi].fallback = IF @ = None /\ getFallbackFromEl(el)
                               THEN el ELSE @]

\* registerRoute, lines 279-282: the element joins its group's list and is
\* the group's fallback when it is the first to ask for it
Registered(els, gi, el) ==
  [els EXCEPT ![gi].list = Append(@, el),
              ![gi].fallback = IF @ = None /\ getFallbackFromEl(el)
                               THEN el ELSE @]

\* registerRoute, lines 275-277: el.__routingRegistered is already set
Warning(el) ==
  IF routingRegistered[el] THEN <<[type |-> "warning", el |-> el]>> ELSE <<>>

NeedsInstallAlways(installed) == TRUE

\* registerRoute, line 268
NeedsInstall(installed) == ~installed

\* installRouter(callback), lines 324-366: the click and popstate listeners
\* are added, then the callback is called once (line 365): it starts the
\* installation-time pass
InstallRouter(st, ts) ==
  StartPass([st EXCEPT !.ev = Append(@, [type |-> "installRouter"])], ts)

\* registerRoute(el); \E x \in {e} names the value of e
RegisterRoute(el) ==
  /\ ops < MaxOps
  /\ \E group \in {getRoutingGroupFromEl(el)} :
     \* installRouter: the listeners, then the installation-time pass
     \E st0 \in {[St(WithGroup(elements, group), active, location, IdleTask)
                   EXCEPT !.ev = <<[type |-> "registerRoute", el |-> el]>>]} :
     \E st1 \in {IF NeedsInstall(routerInstalled)
                 THEN InstallRouter(st0, tasks) ELSE st0} :
     \E gi \in {GroupIndex(st1.elements, group)} :
     \E ts2 \in {Unsteady(Pushed(Started(tasks, st1), group, el))} :
     \E st2 \in {[st1 EXCEPT !.elements = Registered(@, gi, el),
                             !.ev = @ \o Warning(el)]} :
     \E st3 \in {IF st2.elements[gi].fallback = None
                 THEN MaybeEnter([st2 EXCEPT
                                    !.tk = [NewTask("single", st2.elements,
                                                    ts2, st2.loc)
                                            EXCEPT !.fix = Reconciled(
                                              st1.elements[gi], st1.active,
                                              st1.loc)],
                                    !.ev = Append(@, [type |-> "start",
                                                      kind |-> "single",
                                                      others |-> Len(ts2)])],
                                 el)
                 ELSE StartPass(st2, ts2)} :
       /\ Len(ts2) < MaxTasks
       /\ elements' = st3.elements
       /\ active' = st3.active
       /\ tasks' = Started(ts2, st3)
       /\ ev' = st3.ev
  /\ ops' = ops + 1
  /\ routerInstalled' = TRUE
  /\ routingRegistered' = [routingRegistered EXCEPT ![el] = TRUE]
  /\ snap' = NoSnap
  /\ UNCHANGED location

\* unregisterRoute(el)
UnregisterRoute(el) ==
  LET group == getRoutingGroupFromEl(el)
  IN /\ ops < MaxOps
     /\ ops' = ops + 1
     /\ ev' = <<[type |-> "unregisterRoute", el |-> el]>>
     /\ snap' = NoSnap
     /\ IF ~HasGroup(elements, group) THEN UNCHANGED <<elements, tasks>>
        ELSE LET gi == GroupIndex(elements, group)
             IN /\ elements' = [elements EXCEPT
                       ![gi].list = SelectSeq(@, LAMBDA item : item # el)]
                /\ tasks' = Unsteady(Changed(Detached(tasks, group)))
     /\ UNCHANGED <<routerInstalled, routingRegistered, active, location>>

\* a task that is suspended at an await runs on; an awaited callback that
\* completes normally
Resume(t) ==
  /\ t \in 1..Len(tasks)
  /\ \E st \in {Continue(St(elements, active, location, tasks[t]))} :
        /\ elements' = st.elements
        /\ active' = st.active
        /\ tasks' = IF st.tk.pc = "idle" THEN RemoveAt(tasks, t)
                    ELSE [tasks EXCEPT ![t] = st.tk]
        /\ ev' = st.ev
        /\ snap' = SnapAfter(st, tasks', TRUE)
  /\ UNCHANGED <<routerInstalled, routingRegistered, location, ops>>

\* the awaited callback of the suspended task rejects or throws
Rejected(st) ==
  [st EXCEPT !.ev = Append(@, [type |-> "reject", el |-> st.tk.el,
                               kind |-> st.tk.kind, at |-> st.tk.pc,
                               idx |-> st.tk.idx, arr |-> st.tk.arr])]

ThrownCaught(st) == Continue(Rejected(st))

\* lines 150-151, 162-163, 188, 196-197: no await is inside a try, so the
\* exception leaves maybeActivateElement and activateCurrentPath
Thrown(st) == TaskEnd(Rejected(st), TRUE)

\* an awaited callback rejects or throws: nothing catches it
HookFail(t) ==
  /\ t \in 1..Len(tasks)
  /\ tasks[t].pc \in HookPcs
  /\ \E st \in {Thrown(St(elements, active, location, tasks[t]))} :
        /\ elements' = st.elements
        /\ active' = st.active
        /\ tasks' = Unsteady(IF st.tk.pc = "idle" THEN RemoveAt(tasks, t)
                             ELSE [tasks EXCEPT ![t] = st.tk])
        /\ ev' = st.ev
  /\ snap' = NoSnap
  /\ UNCHANGED <<routerInstalled, routingRegistered, location, ops>>

\* the browser raises popstate (back, forward, emitPopstate) at newLocation:
\* the listener of line 361 starts a pass
Popstate(newLocation) ==
  /\ routerInstalled
  /\ ops < MaxOps
  /\ Len(tasks) < MaxTasks
  /\ ops' = ops + 1
  /\ \E st \in {StartPass(St(elements, active, newLocation, IdleTask),
                             tasks)} :
        /\ elements' = st.elements
        /\ active' = st.active
        /\ tasks' = Fresh(Started(tasks, st), TRUE)
        /\ ev' = st.ev
        /\ snap' = SnapAfter(st, tasks', newLocation = location)
  /\ location' = newLocation
  /\ UNCHANGED <<routerInstalled, routingRegistered>>

\* window.history.pushState by the application, with no popstate
PushState(newLocation) ==
  /\ newLocation # location
  /\ ops < MaxOps
  /\ ops' = ops + 1
  /\ location' = newLocation
  /\ ev' = <<>>
  /\ snap' = NoSnap
  /\ tasks' = Fresh(Changed(tasks), FALSE)
  /\ UNCHANGED <<elements, routerInstalled, routingRegistered, active>>

\* a qualifying click on a same-origin link to href (lines 343-356)
Click(href) ==
  /\ routerInstalled
  /\ ops < MaxOps
  /\ ops' = ops + 1
  /\ IF href = location
     THEN /\ ev' = <<[type |-> "click", changed |-> FALSE]>>
          /\ UNCHANGED <<elements, routerInstalled, routingRegistered, active,
                         location, tasks, snap>>
     ELSE \* emitPopstate(): the popstate listener runs synchronously
          \E st1 \in {StartPass([St(elements, active, href, IdleTask) EXCEPT
                                   !.ev = <<[type |-> "click",
                                             changed |-> TRUE]>>],
                                 tasks)} :
          \E ts1 \in {Started(tasks, st1)} :
          \* locationUpdatedCallback(location, e)
          \E st2 \in {StartPass([st1 EXCEPT !.tk = IdleTask], ts1)} :
             /\ Len(ts1) < MaxTasks
             /\ location' = href
             /\ elements' = st2.elements
             /\ active' = st2.active
             /\ tasks' = Fresh(Started(ts1, st2), TRUE)
             /\ ev' = st2.ev
             /\ snap' = NoSnap
             /\ UNCHANGED <<routerInstalled, routingRegistered>>

Next ==
  \/ \E el \in Els : RegisterRoute(el)
  \/ \E el \in Els : UnregisterRoute(el)
  \/ \E t \in 1..MaxTasks : Resume(t)
  \/ \E t \in 1..MaxTasks : HookFail(t)
  \/ \E l \in Locs : Popstate(l)
  \/ \E l \in Locs : PushState(l)
  \/ \E l \in Locs : Click(l)

Spec == Init /\ [][Next]_vars

\* ------------------------------------------------- calls of locationMatch
\* A second specification calls locationMatch directly, as a page does with
\* templates and validators of its own, over every location of a small
\* alphabet.
RECURSIVE JoinPath(_)
\* "/s1/s2/.../sn" for the segments s1..sn
JoinPath(segs) ==
  IF segs = <<>> THEN <<>>
  ELSE <<"/">> \o Head(segs) \o JoinPath(Tail(segs))

UpTo(S, n) == UNION {[1..k -> S] : k \in 1..n}

TemplateSegments == {<<"a">>, <<":", "x">>, <<":", "y">>, <<"*">>, <<>>}
TemplateHashes ==
  {<<>>, <<"#">>, <<"#", "*">>, <<"#", "x">>, <<"#", "x", "#">>}
TemplateUrls ==
  {JoinPath(p) \o h : p \in UpTo(TemplateSegments, MaxSegs),
                      h \in TemplateHashes}

Alternatives ==
  {<<"/">>, <<"/", "a">>, <<"/", ":", "x">>, <<"/", ":", "y">>, <<"/", "*">>,
   <<"/", ":", "x", "#", "x">>}
TemplateLists == {<<>>} \cup UpTo(Alternatives, MaxAlts)

Templates ==
  {Single(u) : u \in TemplateUrls} \cup {List(l) : l \in TemplateLists}

Checkers == {None, "acceptAll", "rejectAll", "nonEmpty"}

\* window.location: the pathname starts with "/", the hash is "" or "#..."
LocationSegments == {<<"a">>, <<"b">>, <<>>}
LocationHashes ==
  {<<>>, <<"#", "x">>, <<"#", "y">>, <<"#", "*">>, <<"#", "x", "#">>}
MatchLocs ==
  {[pathname |-> JoinPath(p), hash |-> h] :
     p \in UpTo(LocationSegments, MaxSegs), h \in LocationHashes}

MatchInit ==
  /\ elements = <<NewGroup("default")>>
  /\ routerInstalled = FALSE
  /\ routingRegistered = [el \in Els |-> FALSE]
  /\ active = [el \in Els |-> FALSE]
  /\ location \in MatchLocs
  /\ tasks = <<>>
  /\ ev = <<>>
  /\ snap = NoSnap
  /\ ops = 0

\* locationMatch(templateUrl, checker) at the current location; its result
\* is looked at before the next call
Match(templateUrl, checker) ==
  /\ ev = <<>>
  /\ ev' = <<[type |-> "locationMatch", templateUrl |-> templateUrl,
              checker |-> checker, loc |-> location,
              result |-> locationMatch(templateUrl, checker, location)]>>
  /\ UNCHANGED <<elements, routerInstalled, routingRegistered, active,
                 location, tasks, snap, ops>>

\* the page moves to another location
Navigate(l) ==
  /\ ev # <<>>
  /\ location' = l
  /\ ev' = <<>>
  /\ UNCHANGED <<elements, routerInstalled, routingRegistered, active,
                 tasks, snap, ops>>

MatchNext ==
  \/ \E t \in Templates, c \in Checkers : Match(t, c)
  \/ \E l \in MatchLocs : Navigate(l)

MatchSpec == MatchInit /\ [][MatchNext]_vars

\* ----------------------------------------------------------------- claims
Events == {ev[i] : i \in 1..Len(ev)}
EventsOf(type) == {x \in Events : x.type = type}
HookEvents == EventsOf("preRouterCallback") \cup EventsOf("routerCallback")
Passes == {t \in 1..Len(tasks) : tasks[t].kind = "pass"}
GroupOf(g) == elements[GroupIndex(elements, g)]
Members(k) == {elements[k].list[j] : j \in 1..Len(elements[k].list)}
MatchesNow(el) == locationMatch(getPagePathFromEl(el), None, location).ok

\* C1: a pass that completes without a hook failing has reconciled every
\* group known to it that has at least one member, whatever the other
\* groups' member lists are (an empty group is merely skipped).
C1_EveryGroupReconciled ==
  \A x \in EventsOf("end") :
    (x.kind = "pass" /\ ~x.failed) => x.nonEmpty \subseteq x.visited

\* C2: when an undisturbed pass finishes a group that has a fallback, the
\* fallback's active flag is true iff no member was evaluated as matched in
\* that pass; only activation-enabled members with a path template that
\* matched count.
C2_FallbackIffNoMemberMatched ==
  /\ \A x \in EventsOf("groupDone") :
       (x.solo /\ GroupOf(x.group).fallback # None) =>
         (active[GroupOf(x.group).fallback] <=> ~x.oneActive)
  /\ \A t \in Passes :
       (tasks[t].pc \in {"evalPre", "evalMain", "evalRet"}
        /\ (tasks[t].oneActive \/ (tasks[t].pc = "evalRet" /\ tasks[t].ret))) =>
         \E j \in 1..tasks[t].idx :
           /\ ~getDisableActivationFromEl(tasks[t].arr[j])
           /\ getPagePathFromEl(tasks[t].arr[j]) # NoPath

\* the fallback was activated by a pass in which the only member matching
\* the location was activation-disabled
C2_Witness ==
  \E x \in EventsOf("groupDone") :
    /\ x.solo
    /\ ~x.oneActive
    /\ GroupOf(x.group).fallback # None
    /\ active[GroupOf(x.group).fallback]
    /\ \E j \in 1..Len(x.arr) :
         getDisableActivationFromEl(x.arr[j]) /\ MatchesNow(x.arr[j])

\* a member matched and the pass left the fallback inactive
C2_WitnessMatched ==
  \E x \in EventsOf("groupDone") :
    /\ x.solo
    /\ x.oneActive
    /\ GroupOf(x.group).fallback # None
    /\ ~active[GroupOf(x.group).fallback]

\* C3: two passes in a row, each run to completion alone, with no location
\* change, no registration, no unregistration and no hook failure from the
\* start of the first to the end of the second: the second leaves every
\* active flag and every group's active-element record as the first left
\* them.
C3_ReconcileAllIdempotent ==
  [][(snap.valid /\ snap'.again /\ EndedSoloPass(ev')) =>
       (active' = snap.active /\ ActiveElements(elements') = snap.ae)]_vars

\* a second pass in a row has completed, over a group with an active member
\* or an active fallback
C3_Witness ==
  /\ snap.valid
  /\ snap.again
  /\ EndedSoloPass(ev)
  /\ \E el \in Els : active[el]
  /\ \E k \in 1..Len(elements) : elements[k].activeElement # None

\* C4: in the second of two undisturbed passes in a row with no location
\* change, an activation-enabled member that the first pass left matched,
\* active and recorded as its group's active element has neither of its
\* callbacks invoked again.
C4_NoMemberHookOnSecondPass ==
  [][\A i \in 1..Len(ev') :
       (/\ snap.valid
        /\ snap'.valid
        /\ ev'[i].type \in {"preRouterCallback", "routerCallback"}
        /\ ev'[i].role = "member"
        /\ ev'[i].kind = "pass"
        /\ ev'[i].solo
        /\ ~getDisableActivationFromEl(ev'[i].el)
        /\ snap.active[ev'[i].el])
       => \A k \in 1..Len(snap.ae) : snap.ae[k] # ev'[i].el]_vars

\* C5: the fallback's callbacks are invoked only in a pass in which its
\* active flag goes from inactive to active: in a pass that starts with the
\* fallback already active and in which no member matches, they are not
\* invoked again.
C5_FallbackHooksOnlyOnTransition ==
  [][\A i \in 1..Len(ev') :
       (/\ snap.valid
        /\ snap'.valid
        /\ ev'[i].type \in {"preRouterCallback", "routerCallback"}
        /\ ev'[i].role = "fallback"
        /\ ev'[i].solo)
       => ~snap.active[ev'[i].el]]_vars

\* C6: a group's recorded active element is none or an entry of the group's
\* member list.
C6_ActiveElementIsMember ==
  \A k \in 1..Len(elements) :
    elements[k].activeElement = None \/ elements[k].activeElement \in Members(k)

\* C7: an activation-disabled component is never a group's recorded active
\* element and its active flag is never set (every flag starts unset).
C7_DisabledNeverActive ==
  \A el \in Els :
    getDisableActivationFromEl(el) =>
      /\ ~active[el]
      /\ \A k \in 1..Len(elements) : elements[k].activeElement # el

\* C8: route-activated is dispatched for a component only when its active
\* flag goes from unset to set.
C8_ActivatedOnlyOnTransition ==
  \A x \in EventsOf("route-activated") : ~x.was

\* C9: within one pass the members of a group are evaluated in member-list
\* order, a member's preRouterCallback completes before its routerCallback
\* starts, the next member's evaluation starts only after both, and the
\* fallback is toggled and its callbacks run only after every member.
C9_WithinPassOrder ==
  /\ \A t \in Passes :
       /\ tasks[t].pc \in {"evalPre", "evalMain", "evalRet"} =>
            /\ tasks[t].idx \in 1..Len(tasks[t].arr)
            /\ tasks[t].seen = SubSeq(tasks[t].arr, 1, tasks[t].idx)
       /\ tasks[t].pc \in {"fbPre", "fbMain"} => tasks[t].seen = tasks[t].arr
  /\ \A x \in EventsOf("fallback") : x.seen = x.arr /\ x.from = "evalRet"
  /\ \A x \in EventsOf("evaluate") : x.from \notin {"evalPre", "evalMain"}
  /\ \A x \in EventsOf("preRouterCallback") :
       IF x.role = "member" THEN x.from \notin {"evalPre", "evalMain"}
       ELSE x.from = "evalRet"
  /\ \A x \in EventsOf("routerCallback") :
       IF x.role = "member"
       THEN /\ preRouterCallback[x.el] => x.from = "evalPre"
            /\ x.from # "evalMain"
       ELSE x.from = (IF preRouterCallback[x.el] THEN "fbPre" ELSE "evalRet")

\* a pass has evaluated two members with callbacks in between and is at the
\* fallback's callback
C9_Witness ==
  \E t \in Passes :
    /\ tasks[t].pc \in {"fbPre", "fbMain"}
    /\ Len(tasks[t].seen) >= 2
    /\ \E j \in 1..Len(tasks[t].seen) : preRouterCallback[tasks[t].seen[j]]

StartedNow(events) == Cardinality({i \in 1..Len(events) : events[i].type = "start"})
EndedNow(events) == Cardinality({i \in 1..Len(events) : events[i].type = "end"})

\* C10 (as the claim states it): passes are preempted only while suspended
\* at an awaited callback.
C10_InterleaveOnlyAtHooks ==
  Cardinality(Passes) >= 2 => \A t \in Passes : tasks[t].pc \in HookPcs

\* C10 (amended): nothing excludes a pass from starting while others are in
\* flight: the start neither waits for them nor ends them, it leaves their
\* position untouched, and every suspended invocation is at an await, that
\* of a callback or that of a member's evaluation (line 188).
C10_NoMutualExclusion ==
  [][/\ \A t \in 1..Len(tasks') : tasks'[t].pc \in AwaitPcs
     /\ StartedNow(ev') > 0 =>
          /\ Len(tasks') = Len(tasks) + StartedNow(ev') - EndedNow(ev')
          /\ \A t \in 1..Len(tasks) :
               tasks'[t] = [tasks[t] EXCEPT !.solo = FALSE,
                                            !.calm = FALSE,
                                            !.steady = tasks'[t].steady,
                                            !.fresh = tasks'[t].fresh,
                                            !.arr = tasks'[t].arr]]_vars

\* two passes are in flight, the earlier suspended at a callback it awaits,
\* and the later one has got further than it
C10_Witness ==
  /\ Len(tasks) = 2
  /\ Passes = {1, 2}
  /\ tasks[1].pc \in HookPcs
  /\ \/ tasks[2].gi > tasks[1].gi
     \/ tasks[2].gi = tasks[1].gi /\ tasks[2].idx > tasks[1].idx

\* C11: when an awaited callback fails in a pass, nothing catches it: the
\* pass ends there as failed, it evaluates no further member, toggles no
\* fallback, goes to no further group and calls no further callback, and what
\* it already wrote to the flags and the records stays as it is.
C11_HookFailureEndsPass ==
  [][\A i \in 1..Len(ev') :
       ev'[i].type = "reject" =>
         /\ i = 1
         /\ Len(ev') = 2
         /\ ev'[2].type = "end"
         /\ ev'[2].failed
         /\ ev'[2].kind = ev'[1].kind
         /\ elements' = elements
         /\ active' = active
         /\ \E t \in 1..Len(tasks) :
              /\ tasks[t].pc \in HookPcs
              /\ tasks[t].el = ev'[1].el
              /\ tasks' = Unsteady(RemoveAt(tasks, t))]_vars

\* a member's callback has failed in a pass after the member was flagged
\* active, with a later member still to evaluate: the flag stays set
C11_Witness ==
  \E x \in EventsOf("reject") :
    /\ x.kind = "pass"
    /\ x.at \in {"evalPre", "evalMain"}
    /\ ~getDisableActivationFromEl(x.el)
    /\ active[x.el]
    /\ x.idx < Len(x.arr)
    /\ Len(ev) = 2
    /\ ev[2].type = "end"

\* el has no path template, is not its group's fallback and is not
\* activation-disabled
NoPathCase(el, els) ==
  /\ getPagePathFromEl(el) = NoPath
  /\ ~getDisableActivationFromEl(el)
  /\ HasGroup(els, getRoutingGroupFromEl(el))
  /\ el # els[GroupIndex(els, getRoutingGroupFromEl(el))].fallback

\* the step is one of task t: it has moved on from where it was, or has ended
Acted(t) ==
  \/ /\ Len(tasks') = Len(tasks)
     /\ <<tasks'[t].gi, tasks'[t].idx, tasks'[t].pc>>
          # <<tasks[t].gi, tasks[t].idx, tasks[t].pc>>
  \/ /\ Len(tasks') = Len(tasks) - 1
     /\ tasks' = RemoveAt(tasks, t)

\* C12: the evaluation of a component with no path template that is neither
\* its group's fallback nor activation-disabled reports an error and returns
\* false at once: the component's flag and the group's active-element record
\* are as they were when the evaluation started, no callback is invoked (the
\* invocation is suspended right after the report, so that nothing follows
\* it in the step but the start of another pass), and the pass then goes on
\* with the next member or, after the last one, with the fallback.
C12_NoPathIsNonMatch ==
  [][/\ \A i \in 1..Len(ev') :
          ev'[i].type = "error" =>
            /\ NoPathCase(ev'[i].el, elements')
            /\ (i = Len(ev') \/ ev'[i + 1].type = "start")
            /\ i > 1
            /\ ev'[i - 1].type = "evaluate"
            /\ ev'[i - 1].el = ev'[i].el
            /\ active'[ev'[i].el] = ev'[i - 1].was
            /\ elements'[GroupIndex(elements',
                  getRoutingGroupFromEl(ev'[i].el))].activeElement = ev'[i - 1].ae
            /\ \E t \in 1..Len(tasks') :
                 /\ tasks'[t].pc = "evalRet"
                 /\ ~tasks'[t].ret
                 /\ tasks'[t].kind = ev'[i - 1].kind
                 /\ Last(tasks'[t].seen) = ev'[i].el
     /\ \A i \in 1..Len(ev') :
          (ev'[i].type = "evaluate" /\ NoPathCase(ev'[i].el, elements')) =>
            (i < Len(ev') /\ ev'[i + 1].type = "error")
     /\ \A t \in 1..Len(tasks) :
          (/\ tasks[t].kind = "pass"
           /\ tasks[t].pc = "evalRet"
           /\ NoPathCase(Last(tasks[t].seen), elements)
           /\ Acted(t)) =>
            IF tasks[t].idx < Len(tasks[t].arr)
            THEN /\ ev'[1].type = "evaluate"
                 /\ ev'[1].el = tasks[t].arr[tasks[t].idx + 1]
            ELSE /\ ev'[1].type = "fallback"
                 /\ ev'[1].el = elements[GroupIndex(elements,
                                   tasks[t].keys[tasks[t].gi])].fallback]_vars

\* a pass has just evaluated such a component, reported the error and is
\* suspended with the fallback still to come
C12_Witness ==
  /\ ev # <<>>
  /\ Last(ev).type = "error"
  /\ \E t \in Passes :
       /\ tasks[t].pc = "evalRet"
       /\ Last(tasks[t].seen) = Last(ev).el
       /\ Len(tasks[t].seen) >= 2

PassStarts(events) ==
  Cardinality({i \in 1..Len(events) :
                 events[i].type = "start" /\ events[i].kind = "pass"})

\* C13: installRouter is called in the first registerRoute call and in no
\* other, whatever is suspended meanwhile: the listeners are added once, the
\* installation-time pass is started once, right then, and a later
\* registration starts no pass but the one it runs for a group with a
\* fallback.
C13_InstalledOnce ==
  [][/\ routerInstalled => routerInstalled'
     /\ \A i \in 1..Len(ev') :
          ev'[i].type = "installRouter" =>
            /\ ~routerInstalled
            /\ routerInstalled'
            /\ \A el \in Els : ~routingRegistered[el]
            /\ i = 2
            /\ ev'[1].type = "registerRoute"
            /\ ev'[3].type = "start"
            /\ ev'[3].kind = "pass"
            /\ \A j \in 1..Len(ev') : ev'[j].type = "installRouter" => j = i
     /\ \A i \in 1..Len(ev') :
          ev'[i].type = "registerRoute" =>
            /\ i = 1
            /\ routerInstalled'
            /\ ~routerInstalled => ev'[2].type = "installRouter"
            /\ routerInstalled =>
                 PassStarts(ev') =
                   IF elements'[GroupIndex(elements',
                        getRoutingGroupFromEl(ev'[i].el))].fallback = None
                   THEN 0 ELSE 1]_vars

\* a component has been registered while an earlier registration or pass was
\* suspended, with the router already installed: nothing was installed again
C13_Witness ==
  /\ routerInstalled
  /\ ev # <<>>
  /\ ev[1].type = "registerRoute"
  /\ \A i \in 1..Len(ev) : ev[i].type # "installRouter"
  /\ \E i \in 1..Len(ev) : ev[i].type = "start" /\ ev[i].others >= 1
  /\ Cardinality({el \in Els : routingRegistered[el]}) >= 2

Call(events, type) == events # <<>> /\ events[1].type = type
Without(list, el) == SelectSeq(list, LAMBDA x : x # el)
Occurrences(list, el) == Cardinality({i \in 1..Len(list) : list[i] = el})

\* C14: registerRoute(el) appends el to its group's list, one entry per call
\* whether or not el is registered already (the group is created when new);
\* unregisterRoute(el) leaves the list without el, the other entries in their
\* order, and changes nothing when el is not in the list or the group does
\* not exist; nothing else changes a list.
C14_ListIsRegistrations ==
  [][/\ Len(elements') >= Len(elements)
     /\ \A k \in 1..Len(elements) :
          /\ elements'[k].name = elements[k].name
          /\ elements'[k].list =
               IF /\ Call(ev', "registerRoute")
                  /\ getRoutingGroupFromEl(ev'[1].el) = elements[k].name
               THEN Append(elements[k].list, ev'[1].el)
               ELSE IF /\ Call(ev', "unregisterRoute")
                       /\ getRoutingGroupFromEl(ev'[1].el) = elements[k].name
               THEN Without(elements[k].list, ev'[1].el)
               ELSE elements[k].list
     /\ \A k \in (Len(elements) + 1)..Len(elements') :
          /\ k = Len(elements) + 1
          /\ Call(ev', "registerRoute")
          /\ elements'[k].name = getRoutingGroupFromEl(ev'[1].el)
          /\ elements'[k].list = <<ev'[1].el>>
     /\ Call(ev', "registerRoute") =>
          /\ HasGroup(elements', getRoutingGroupFromEl(ev'[1].el))
          /\ \A k \in 1..Len(elements) :
               Occurrences(elements'[k].list, ev'[1].el) =
                 Occurrences(elements[k].list, ev'[1].el)
                 + (IF elements[k].name = getRoutingGroupFromEl(ev'[1].el)
                    THEN 1 ELSE 0)
     /\ (/\ Call(ev', "unregisterRoute")
         /\ \A k \in 1..Len(elements) :
              elements[k].name = getRoutingGroupFromEl(ev'[1].el) =>
                Occurrences(elements[k].list, ev'[1].el) = 0)
        => elements' = elements]_vars

\* one component instance has just been registered again: its group's list
\* holds it twice
C14_Witness ==
  /\ Call(ev, "registerRoute")
  /\ \E i \in 1..Len(ev) : ev[i].type = "warning"
  /\ \E k \in 1..Len(elements) : Occurrences(elements[k].list, ev[1].el) = 2

\* C18: every member a pass evaluates is matched against the location that
\* was current when the pass started.
C18_LocationSnapshotPerPass ==
  \A x \in EventsOf("evaluate") :
    (x.kind = "pass" /\ getPagePathFromEl(x.el) # NoPath) => x.loc = x.loc0

\* C20: a qualifying click whose destination differs from the current
\* location starts exactly one pass, and one whose destination is the
\* current location starts none.
C20_ClickStartsOnePass ==
  [][Call(ev', "click") =>
       PassStarts(ev') = (IF ev'[1].changed THEN 1 ELSE 0)]_vars

\* C19: when registerRoute evaluates only the new component (its group has
\* no fallback), runs undisturbed, and the group was reconciled with the
\* location before the call, then the group is reconciled after it: a pass
\* over the group would change no member's flag nor the group's record.
C19_SingleEvaluationIsEnough ==
  \A x \in EventsOf("end") :
    (x.kind = "single" /\ x.solo /\ x.calm /\ ~x.failed /\ x.fix) =>
      Reconciled(GroupOf(getRoutingGroupFromEl(x.of[1])), active, location)

\* ------------------------------------------------ claims about the matcher
MatchCalls == EventsOf("locationMatch")

IsParam(seg) == seg # <<>> /\ seg[1] = ":"

\* the rule for one segment of the template against one of the location
SegmentSucceeds(t, l) ==
  IF IsParam(t) THEN TRUE
  ELSE IF t = <<"*">> THEN l # <<>>
  ELSE t = l

\* the mapping of the ':name' bindings; for a name that occurs twice the
\* later segment gives the value
Bindings(ts, ls) ==
  {<<SubSeq(ts[i], 2, Len(ts[i])), ls[i]>> :
     i \in {i \in 1..Len(ts) :
              IsParam(ts[i]) /\ \A j \in (i + 1)..Len(ts) : ts[j] # ts[i]}}

SegmentRule(ts, ls) ==
  IF Len(ts) = Len(ls) /\ \A i \in 1..Len(ts) : SegmentSucceeds(ts[i], ls[i])
  THEN [ok |-> TRUE, params |-> Bindings(ts, ls), threw |-> FALSE,
        calls |-> <<>>]
  ELSE NoMatch

\* a call with a single template without hash portion and no validator
PathOnlyCall(x) ==
  /\ ~x.templateUrl.isArray
  /\ x.checker = None
  /\ IndexOf(x.templateUrl.urls[1], "#") = 0

\* C15: for every single template without hash portion and every location,
\* the match fails when the segment counts differ, and otherwise succeeds
\* exactly when every segment succeeds (':name' always, binding the
\* location's segment even when empty; '*' on a non-empty segment; a literal
\* on an equal segment), with exactly the ':name' bindings as its result.
C15_SegmentMatching ==
  \A x \in MatchCalls :
    PathOnlyCall(x) =>
      x.result = SegmentRule(Split(x.templateUrl.urls[1], "/"),
                             Split(x.loc.pathname, "/"))

\* The segment rule does hold for the templates that start with one slash
\* only, which new URL reads as a path.
SegmentMatchingOfPaths ==
  \A x \in MatchCalls :
    (PathOnlyCall(x) /\ ~SchemeRelative(x.templateUrl.urls[1])) =>
      x.result = SegmentRule(Split(x.templateUrl.urls[1], "/"),
                             Split(x.loc.pathname, "/"))

\* the hash portion of a template: what follows its "#"
HasHashPortion(url) == IndexOf(url, "#") # 0
HashPortion(url) == SubSeq(url, IndexOf(url, "#") + 1, Len(url))

\* the hash of a location, without its "#"
LocationHash(loc) == IF loc.hash = <<>> THEN <<>> ELSE Tail(loc.hash)

HashRule(url, hash) ==
  IF ~HasHashPortion(url) THEN TRUE
  ELSE IF HashPortion(url) = <<"*">> THEN hash # <<>>
  ELSE IF HashPortion(url) = <<>> THEN hash = <<>>
  ELSE HashPortion(url) = hash

\* a call with a single template and no validator, where the template's
\* path portion matches the location's path
PathMatchedCall(x) ==
  /\ ~x.templateUrl.isArray
  /\ x.checker = None
  /\ locationMatch(Single(Before(x.templateUrl.urls[1], "#")), None,
                   Loc(x.loc.pathname)).ok

\* C16: when the path segments of template and location match, a template
\* without hash portion matches for every location hash, a template whose
\* hash portion is '*' matches iff the location hash is non-empty, a
\* template that ends in a bare '#' matches iff the location hash is empty,
\* and any other template hash matches iff it equals the location hash.
C16_HashRule ==
  \A x \in MatchCalls :
    PathMatchedCall(x) =>
      x.result.ok = HashRule(x.templateUrl.urls[1], LocationHash(x.loc))

\* The hash rule does hold for the templates whose hash portion does not
\* end in '#', and for the bare '#': line 425 takes any template that ends
\* in '#' as one that wants an empty hash.
HashRuleOfPlainHashes ==
  \A x \in MatchCalls :
    (/\ PathMatchedCall(x)
     /\ (HasHashPortion(x.templateUrl.urls[1])
         /\ HashPortion(x.templateUrl.urls[1]) # <<>>) =>
           Last(x.templateUrl.urls[1]) # "#") =>
      x.result.ok = HashRule(x.templateUrl.urls[1], LocationHash(x.loc))

ListCall(x) == x.templateUrl.isArray

\* alternative i of the call x: its segments and hash match the location
Matched(x, i) ==
  locationMatchExecutor(x.templateUrl.urls[i], None, x.loc).ok

MatchedParams(x, i) ==
  locationMatchExecutor(x.templateUrl.urls[i], None, x.loc).params

\* alternative i matches successfully: segments, hash and, when a validator
\* is supplied, its acceptance
Succeeds(x, i) ==
  /\ Matched(x, i)
  /\ x.checker # None => CheckerAccepts(x.checker, MatchedParams(x, i))

Successful(x) == {i \in 1..Len(x.templateUrl.urls) : Succeeds(x, i)}

FirstSuccessful(x) ==
  CHOOSE i \in Successful(x) : \A j \in Successful(x) : i <= j

\* the alternatives that are tried: up to the first successful one
Tried(x) ==
  IF Successful(x) = {} THEN 1..Len(x.templateUrl.urls)
  ELSE 1..FirstSuccessful(x)

\* C17: for a list of alternatives the result is that of the first
\* alternative, in list order, that matches successfully (segments, hash
\* and validator), and a failure without parameters if none does; the
\* validator is called only with the parameters of alternatives whose
\* segments and hash matched, once for each such alternative tried.
C17_FirstAlternativeWins ==
  \A x \in MatchCalls :
    ListCall(x) =>
      /\ ~x.result.threw
      /\ x.result.ok = (Successful(x) # {})
      /\ x.result.params =
           (IF Successful(x) = {} THEN {}
            ELSE MatchedParams(x, FirstSuccessful(x)))
      /\ \A k \in 1..Len(x.result.calls) :
           \E i \in Tried(x) :
             Matched(x, i) /\ x.result.calls[k] = MatchedParams(x, i)
      /\ Len(x.result.calls) =
           (IF x.checker = None THEN 0
            ELSE Cardinality({i \in Tried(x) : Matched(x, i)}))

\* ['/:x', '/'] at '/' with a validator that wants non-empty values: the
\* first alternative is refused and the second gives the result
C17_Witness ==
  \E x \in MatchCalls :
    /\ ListCall(x)
    /\ x.checker = "nonEmpty"
    /\ Len(x.templateUrl.urls) = 2
    /\ Matched(x, 1) /\ ~Succeeds(x, 1)
    /\ FirstSuccessful(x) = 2
    /\ x.result.ok
    /\ Len(x.result.calls) = 2

\* ------------------------------------------- claims about overlapping work
\* el is a member that counts as matching the location: it is
\* activation-enabled and its path template matches
MatchingMember(el) ==
  /\ ~getDisableActivationFromEl(el)
  /\ getPagePathFromEl(el) # NoPath
  /\ MatchesNow(el)

\* the state of group g corresponds to the location
Corresponds(g) ==
  /\ GroupOf(g).activeElement # None =>
       /\ MatchesNow(GroupOf(g).activeElement)
       /\ active[GroupOf(g).activeElement]
  /\ GroupOf(g).fallback # None =>
       (active[GroupOf(g).fallback] <=>
          ~\E el \in Members(GroupIndex(elements, g)) : MatchingMember(el))

\* the last of the passes in flight has just completed; none of them failed,
\* the registry was the same for all of them, and one of them was started
\* after the location last changed
QuiescentAfter(x) ==
  /\ tasks = <<>>
  /\ x.type = "end"
  /\ x.kind = "pass"
  /\ ~x.failed
  /\ x.steady
  /\ x.fresh

\* C21: once every pass in flight has completed without a hook failure, at
\* least one of them started after the last change of location, each group
\* the passes reconciled corresponds to the final location: its recorded
\* active element, if any, matches the location and has its active flag set,
\* and its fallback is active iff no member matches the location.
C21_QuiescentConsistency ==
  \A x \in Events :
    QuiescentAfter(x) => \A g \in x.visited : Corresponds(g)

\* el was registered and unregisterRoute(el) has returned since: it is in
\* no list (only unregisterRoute takes an element out of a list)
Unregistered(el, registered, els) ==
  /\ registered[el]
  /\ HasGroup(els, getRoutingGroupFromEl(el))
  /\ \A j \in 1..Len(els[GroupIndex(els, getRoutingGroupFromEl(el))].list) :
       els[GroupIndex(els, getRoutingGroupFromEl(el))].list[j] # el

RecordOf(el, els) ==
  els[GroupIndex(els, getRoutingGroupFromEl(el))].activeElement

\* C22: from the return of unregisterRoute(el) until el is registered
\* again, no step of a pass, started later or resumed from a hook, changes
\* el's active flag, invokes a hook of el, or records el as its group's
\* active element; el may have been the group's fallback.
C22_UnregisteredIsLeftAlone ==
  [][\A el \in Els :
       (/\ Unregistered(el, routingRegistered, elements)
        /\ Unregistered(el, routingRegistered', elements')) =>
         /\ active'[el] = active[el]
         /\ \A i \in 1..Len(ev') :
              ev'[i].type \in {"preRouterCallback", "routerCallback"} =>
                ev'[i].el # el
         /\ RecordOf(el, elements') = el => RecordOf(el, elements) = el]_vars

====
